---- MODULE Spec2Model ----
(***************************************************************************)
(* Model of src/main.py: enum_mitre_attack_group_techniques and its three  *)
(* row handlers.  Text is a sequence of tokens; " " is a whitespace token, *)
(* so str.strip() and the f"{parent}{sub}" concatenation are computed, not *)
(* assumed.  A cell is its first <a> (if any) and its whole visible text.  *)
(* The name and use cells are copied verbatim into record fields that no   *)
(* identifier field reads; they are represented only by the row's number   *)
(* of cells, which decides whether reading them raises IndexError.         *)
(***************************************************************************)
EXTENDS Integers, Sequences, FiniteSets, TLC

\* ----------------------------------------------------------------- bounds
MaxGroups == 2
MaxRows == 2
MaxRecords == 3
\* the widest handler reads cells[4], so rows of up to 5 cells are drawn
MaxCells == 5

GroupIds == {"G1", "G2"}

\* ------------------------------------------------------------------- text
EmptyText == << >>

RECURSIVE LStrip(_)
LStrip(t) == IF t # << >> /\ Head(t) = " " THEN LStrip(Tail(t)) ELSE t

RECURSIVE RStrip(_)
RStrip(t) ==
    IF t # << >> /\ t[Len(t)] = " " THEN RStrip(SubSeq(t, 1, Len(t) - 1)) ELSE t

\* str.strip()
Strip(t) == RStrip(LStrip(t))

\* x.text.strip() of the first link when the cell has one, else of the cell
ExtractText(cell) == Strip(IF cell.has_a THEN cell.a ELSE cell.text)

\* ------------------------------------------------------------- the inputs
PlainCell(t) == [has_a |-> FALSE, a |-> EmptyText, text |-> t]
LinkCell(t, around) == [has_a |-> TRUE, a |-> t, text |-> around]

BlankCell == PlainCell(EmptyText)
DomainCell == PlainCell(<<"Enterprise">>)

IdCells ==
    { BlankCell,
      LinkCell(<<"T1">>, <<" ", "T1", " ">>),
      PlainCell(<<" ", "T2">>) }

\* a row of n cells: domain, id, sub id, then name and use cells
MkRow(class, n, id, sub) ==
    [class |-> class,
     cells |-> [k \in 1..n |->
                  CASE k = 1 -> DomainCell
                    [] k = 2 -> id
                    [] k = 3 -> sub
                    [] OTHER -> BlankCell]]

ParentClass == {"technique"}
FullSubClass == {"sub", "technique", "noparent"}
ContinuationClass == {"sub", "technique"}
OtherClass == {"noparent"}

SubCell == LinkCell(<<" ", ".1">>, <<" ", ".1">>)
SubCells == { BlankCell, SubCell }

\* One row of fewer than 2 cells, and one row too short for each handler:
\* the handler raises before it appends, whatever the cells hold.
ShortRows ==
    { MkRow(ParentClass, 1, BlankCell, BlankCell),
      MkRow(ParentClass, 3, BlankCell, BlankCell),
      MkRow(FullSubClass, 4, BlankCell, SubCell),
      MkRow(ContinuationClass, 4, BlankCell, SubCell) }

Rows ==
    ShortRows
    \cup { MkRow(ParentClass, 4, id, BlankCell) : id \in IdCells }
    \cup { MkRow(FullSubClass, MaxCells, id, SubCell) : id \in IdCells }
    \cup { MkRow(ContinuationClass, MaxCells, BlankCell, sub) : sub \in SubCells }
    \cup { MkRow(OtherClass, MaxCells, BlankCell, BlankCell) }

NoRow == MkRow({}, 0, BlankCell, BlankCell)

RECURSIVE SeqsUpTo(_, _)
SeqsUpTo(S, n) ==
    IF n = 0 THEN { << >> }
    ELSE LET shorter == SeqsUpTo(S, n - 1)
         IN shorter \cup { Append(s, x) : s \in { t \in shorter : Len(t) = n - 1 }, x \in S }

\* ------------------------------------------------------------ the handlers
\* cells[k] with Python's index
Cell(row, k) == row.cells[k + 1]
NCells(row) == Len(row.cells)

Record(group_id, domain, technique_id, sub_technique_id, full_technique_id) ==
    [Group_ID |-> group_id,
     Domain |-> domain,
     Technique_ID |-> technique_id,
     Sub_Technique_ID |-> sub_technique_id,
     Full_Technique_ID |-> full_technique_id]

Raised(all_techniques, last_technique_id) ==
    [all_techniques |-> all_techniques,
     last_technique_id |-> last_technique_id,
     raised |-> TRUE]

Returned(all_techniques, last_technique_id) ==
    [all_techniques |-> all_techniques,
     last_technique_id |-> last_technique_id,
     raised |-> FALSE]

\* faulty variant: the handler returns the row's own id text, not the resolved id
process_technique_row_returns_own(row, group_id, all_techniques, last_technique_id) ==
    IF NCells(row) < 4
    THEN Raised(all_techniques, last_technique_id)
    ELSE LET own == ExtractText(Cell(row, 1))
             technique_id == IF own = EmptyText THEN last_technique_id ELSE own
         IN Returned(
                Append(all_techniques,
                       Record(group_id, Strip(Cell(row, 0).text), technique_id,
                              EmptyText, technique_id)),
                own)

\* faulty variant: the carry-over wins over the row's own id whenever it is set
process_technique_row_prefers_last(row, group_id, all_techniques, last_technique_id) ==
    IF NCells(row) < 4
    THEN Raised(all_techniques, last_technique_id)
    ELSE LET own == ExtractText(Cell(row, 1))
             technique_id ==
                 IF last_technique_id # EmptyText THEN last_technique_id ELSE own
         IN Returned(
                Append(all_techniques,
                       Record(group_id, Strip(Cell(row, 0).text), technique_id,
                              EmptyText, technique_id)),
                technique_id)

process_technique_row(row, group_id, all_techniques, last_technique_id) ==
    IF NCells(row) < 4
    THEN Raised(all_techniques, last_technique_id)
    ELSE LET own == ExtractText(Cell(row, 1))
             technique_id == IF own = EmptyText THEN last_technique_id ELSE own
         IN Returned(
                Append(all_techniques,
                       Record(group_id, Strip(Cell(row, 0).text), technique_id,
                              EmptyText, technique_id)),
                technique_id)

\* faulty variant: the composite id is built from the row's own id text, before the
\* blank-inherits-previous rule
process_full_subtechnique_row_own_composite(row, group_id, all_techniques, last_technique_id) ==
    IF NCells(row) < 5
    THEN Raised(all_techniques, last_technique_id)
    ELSE LET own == ExtractText(Cell(row, 1))
             parent_technique_id ==
                 IF own = EmptyText THEN last_technique_id ELSE own
             sub_technique_id == ExtractText(Cell(row, 2))
         IN Returned(
                Append(all_techniques,
                       Record(group_id, Strip(Cell(row, 0).text),
                              parent_technique_id, sub_technique_id,
                              own \o sub_technique_id)),
                parent_technique_id)

process_full_subtechnique_row(row, group_id, all_techniques, last_technique_id) ==
    IF NCells(row) < 5
    THEN Raised(all_techniques, last_technique_id)
    ELSE LET own == ExtractText(Cell(row, 1))
             parent_technique_id ==
                 IF own = EmptyText THEN last_technique_id ELSE own
             sub_technique_id == ExtractText(Cell(row, 2))
         IN Returned(
                Append(all_techniques,
                       Record(group_id, Strip(Cell(row, 0).text),
                              parent_technique_id, sub_technique_id,
                              parent_technique_id \o sub_technique_id)),
                parent_technique_id)

\* faulty variant: the scan without its Group_ID test
RECURSIVE InferParentAnyGroup(_, _)
InferParentAnyGroup(all_techniques, group_id) ==
    IF all_techniques = << >> THEN EmptyText
    ELSE LET tech == all_techniques[Len(all_techniques)]
         IN IF /\ tech.Technique_ID # EmptyText
               /\ tech.Sub_Technique_ID = EmptyText
            THEN tech.Technique_ID
            ELSE InferParentAnyGroup(
                     SubSeq(all_techniques, 1, Len(all_techniques) - 1), group_id)

\* for tech in reversed(all_techniques): the first match's Technique_ID
RECURSIVE InferParent(_, _)
InferParent(all_techniques, group_id) ==
    IF all_techniques = << >> THEN EmptyText
    ELSE LET tech == all_techniques[Len(all_techniques)]
         IN IF /\ tech.Group_ID = group_id
               /\ tech.Technique_ID # EmptyText
               /\ tech.Sub_Technique_ID = EmptyText
            THEN tech.Technique_ID
            ELSE InferParent(SubSeq(all_techniques, 1, Len(all_techniques) - 1),
                             group_id)

process_continuation_subtechnique_row(row, group_id, all_techniques, last_technique_id) ==
    IF NCells(row) < 5
    THEN Raised(all_techniques, last_technique_id)
    ELSE LET sub_technique_id == ExtractText(Cell(row, 2))
             parent_technique_id ==
                 IF last_technique_id = EmptyText
                 THEN InferParent(all_techniques, group_id)
                 ELSE last_technique_id
         IN Returned(
                Append(all_techniques,
                       Record(group_id, <<"Enterprise">>, parent_technique_id,
                              sub_technique_id,
                              parent_technique_id \o sub_technique_id)),
                parent_technique_id)

\* the row kinds of the loop body's if / elif chain
IsParentRow(row) == "technique" \in row.class /\ "sub" \notin row.class
IsFullSubRow(row) == "sub" \in row.class /\ "noparent" \in row.class
IsContinuationRow(row) == "sub" \in row.class /\ "noparent" \notin row.class

\* one iteration of "for row in rows"
ProcessOneRow(row, group_id, all_techniques, last_technique_id) ==
    IF NCells(row) < 2 THEN Returned(all_techniques, last_technique_id)
    ELSE IF IsParentRow(row)
    THEN process_technique_row(row, group_id, all_techniques, last_technique_id)
    ELSE IF IsFullSubRow(row)
    THEN process_full_subtechnique_row(row, group_id, all_techniques,
                                       last_technique_id)
    ELSE IF "sub" \in row.class
    THEN process_continuation_subtechnique_row(row, group_id, all_techniques,
                                               last_technique_id)
    ELSE Returned(all_techniques, last_technique_id)

\* ------------------------------------------------------------------ state
VARIABLES
    mitre_groups,       \* the "ID" column of the listing
    idx,                \* how many groups the outer loop has taken
    group_id,           \* the outer loop variable
    all_techniques,     \* the accumulating list of records
    last_technique_id,  \* the carry-over of the current table
    row,                \* the inner loop variable
    nrows,              \* rows of the current table taken so far
    pc,                 \* "loop" | "fetch" | "rows" | "sleep" | "done"
    log,                \* history: the get / sleep / error events, in order
    pass_start,         \* history: Len(all_techniques) when the table began
    ref                 \* history: the same rows parsed from an empty list

vars == << mitre_groups, idx, group_id, all_techniques, last_technique_id,
           row, nrows, pc, log, pass_start, ref >>

Event(op, g) == [op |-> op, gid |-> g]

\* the variables scoped to one table's iteration, before and after it
NoTable ==
    /\ last_technique_id' = EmptyText
    /\ row' = NoRow
    /\ nrows' = 0
    /\ pass_start' = 0
    /\ ref' = Returned(<< >>, EmptyText)

Init ==
    /\ mitre_groups \in SeqsUpTo(GroupIds, MaxGroups)
    /\ idx = 0
    /\ group_id = ""
    /\ all_techniques = << >>
    /\ last_technique_id = EmptyText
    /\ row = NoRow
    /\ nrows = 0
    /\ pc = "loop"
    /\ log = << >>
    /\ pass_start = 0
    /\ ref = Returned(<< >>, EmptyText)

\* for group_id in mitre_groups["ID"]: the next group.  last_technique_id and
\* row of the table before are dead here (lines 96 and 99 assign them before
\* any read), so they leave the state.
NextGroup ==
    /\ pc = "loop"
    /\ idx < Len(mitre_groups)
    /\ idx' = idx + 1
    /\ group_id' = mitre_groups[idx + 1]
    /\ pc' = "fetch"
    /\ NoTable
    /\ UNCHANGED << mitre_groups, all_techniques, log >>

\* the loop is exhausted: the DataFrame is built and returned
Finish ==
    /\ pc = "loop"
    /\ idx = Len(mitre_groups)
    /\ pc' = "done"
    /\ NoTable
    /\ UNCHANGED << mitre_groups, idx, group_id, all_techniques, log >>

\* faulty variant: the try statement around the whole loop, so an exception ends it
ExceptTargetEndsLoop == "done"

\* where the except clause leaves the group: back at the for statement
ExceptTarget == "loop"

\* requests.get raises: the except clause prints and the loop goes on
FetchRaises ==
    /\ pc = "fetch"
    /\ log' = log \o << Event("get", group_id), Event("error", group_id) >>
    /\ pc' = ExceptTarget
    /\ UNCHANGED << mitre_groups, idx, group_id, all_techniques,
                    last_technique_id, row, nrows, pass_start, ref >>

\* status_code != 200: a message, then the delay
FetchNon200 ==
    /\ pc = "fetch"
    /\ log' = Append(log, Event("get", group_id))
    /\ pc' = "sleep"
    /\ UNCHANGED << mitre_groups, idx, group_id, all_techniques,
                    last_technique_id, row, nrows, pass_start, ref >>

\* status 200, no table of class techniques-used: a message, then the delay
FetchNoTable ==
    /\ pc = "fetch"
    /\ log' = Append(log, Event("get", group_id))
    /\ pc' = "sleep"
    /\ UNCHANGED << mitre_groups, idx, group_id, all_techniques,
                    last_technique_id, row, nrows, pass_start, ref >>

\* status 200 and a table: the carry-over is reset and the rows are iterated
FetchTable ==
    /\ pc = "fetch"
    /\ log' = Append(log, Event("get", group_id))
    /\ last_technique_id' = EmptyText
    /\ nrows' = 0
    /\ pass_start' = Len(all_techniques)
    /\ ref' = Returned(<< >>, EmptyText)
    /\ pc' = "rows"
    /\ UNCHANGED << mitre_groups, idx, group_id, all_techniques, row >>

\* one iteration of the row loop; an IndexError of a handler leaves the loop
\* for the except clause
ProcessRow(r) ==
    /\ pc = "rows"
    /\ nrows < MaxRows
    /\ Len(all_techniques) < MaxRecords
    /\ LET out == ProcessOneRow(r, group_id, all_techniques, last_technique_id)
       IN /\ row' = r
          /\ nrows' = nrows + 1
          /\ all_techniques' = out.all_techniques
          /\ last_technique_id' = out.last_technique_id
          /\ ref' = ProcessOneRow(r, group_id, ref.all_techniques,
                                  ref.last_technique_id)
          /\ IF out.raised
             THEN /\ pc' = ExceptTarget
                  /\ log' = Append(log, Event("error", group_id))
             ELSE /\ pc' = "rows"
                  /\ log' = log
    /\ UNCHANGED << mitre_groups, idx, group_id, pass_start >>

\* the rows are exhausted
EndRows ==
    /\ pc = "rows"
    /\ pc' = "sleep"
    /\ NoTable
    /\ UNCHANGED << mitre_groups, idx, group_id, all_techniques, log >>

\* time.sleep(1)
Sleep ==
    /\ pc = "sleep"
    /\ log' = Append(log, Event("sleep", group_id))
    /\ pc' = "loop"
    /\ UNCHANGED << mitre_groups, idx, group_id, all_techniques,
                    last_technique_id, row, nrows, pass_start, ref >>

Next ==
    \/ NextGroup
    \/ Finish
    \/ FetchRaises
    \/ FetchNon200
    \/ FetchNoTable
    \/ FetchTable
    \/ \E r \in Rows : ProcessRow(r)
    \/ EndRows
    \/ Sleep

Spec == Init /\ [][Next]_vars

\* ------------------------------------------------- vocabulary of the claims
\* a step of the row loop: only ProcessRow advances the row counter
RowStep == pc = "rows" /\ nrows' = nrows + 1

\* the step appended exactly one record and changed none
EmitsOne ==
    /\ Len(all_techniques') = Len(all_techniques) + 1
    /\ SubSeq(all_techniques', 1, Len(all_techniques)) = all_techniques

NewRecord == all_techniques'[Len(all_techniques')]
LastRecord == all_techniques[Len(all_techniques)]

\* the records of the current table's iteration
PassRecords == SubSeq(all_techniques, pass_start + 1, Len(all_techniques))

IsPrefix(s, t) == Len(s) <= Len(t) /\ SubSeq(t, 1, Len(s)) = s

\* a row with the cells its handler reads
ParentRowOk(r) == IsParentRow(r) /\ NCells(r) >= 4
FullSubRowOk(r) == IsFullSubRow(r) /\ NCells(r) >= 5
ContinuationRowOk(r) == IsContinuationRow(r) /\ NCells(r) >= 5

\* markers of none of the three kinds, or too few cells for its kind
Malformed(r) ==
    \/ NCells(r) < 2
    \/ ~(IsParentRow(r) \/ IsFullSubRow(r) \/ IsContinuationRow(r))
    \/ (IsParentRow(r) /\ NCells(r) < 4)
    \/ (~IsParentRow(r) /\ NCells(r) < 5)

Distinct(s) == \A i, j \in 1..Len(s) : s[i] = s[j] => i = j

\* the group ids of the get events, in order
RECURSIVE Gets(_)
Gets(l) ==
    IF l = << >> THEN << >>
    ELSE IF Head(l).op = "get" THEN << Head(l).gid >> \o Gets(Tail(l))
    ELSE Gets(Tail(l))

\* ------------------------------------------------------------------ claims

\* C1: a continuation row (with its five cells) that immediately follows a
\* parent or full sub-technique row whose record has Technique_ID X gets
\* Technique_ID X and Full_Technique_ID X followed by its own sub id.
C1_ContinuationInheritsPrevious ==
    [][(/\ RowStep
        /\ ParentRowOk(row) \/ FullSubRowOk(row)
        /\ ContinuationRowOk(row'))
       => /\ EmitsOne
          /\ NewRecord.Technique_ID = LastRecord.Technique_ID
          /\ NewRecord.Full_Technique_ID =
                 LastRecord.Technique_ID \o ExtractText(Cell(row', 2))]_vars

\* C2: per-group isolation: a failed fetch changes no record, no step removes
\* or changes a collected record, an exception of the fetch or of a handler
\* returns to the group loop, and the run ends only after a get for every
\* group of the listing, in listing order.
C2_PerGroupIsolation ==
    /\ [](pc = "done" => Gets(log) = mitre_groups)
    /\ [][IsPrefix(all_techniques, all_techniques')]_vars
    /\ [][(pc = "fetch" /\ pc' # "rows") =>
              all_techniques' = all_techniques]_vars
    /\ [][(pc \in {"fetch", "rows"} /\ Len(log') > Len(log)
             /\ log'[Len(log')].op = "error")
          => (pc' = "loop" /\ idx' = idx)]_vars

\* C2 witness: the run is over, a group failed after a record had been
\* collected, and a later group still added a record
C2_Witness ==
    /\ pc = "done"
    /\ \E k \in 1..Len(log) :
          /\ log[k].op = "error"
          /\ \E j \in (k + 1)..Len(log) : log[j].op = "get"
    /\ Len(all_techniques) >= 2
    /\ all_techniques[1].Group_ID = mitre_groups[1]
    /\ log[2].op = "error"
    /\ all_techniques[Len(all_techniques)].Group_ID # mitre_groups[1]

\* C3: a malformed row is skipped: no record, carry-over and records
\* unchanged, no error, and the row loop goes on.
C3_MalformedRowSkipped ==
    [][(RowStep /\ Malformed(row'))
       => /\ all_techniques' = all_techniques
          /\ last_technique_id' = last_technique_id
          /\ log' = log
          /\ pc' = "rows"]_vars

\* C4: the records a table's rows emit are those the same rows emit when
\* parsed with an empty collection and an empty carry-over.
C4_ParseIndependentOfCollection ==
    pc = "rows" => PassRecords = ref.all_techniques

\* C5 as stated: the composite id of a full sub-technique row is the row's own
\* parent id text followed by its own sub id text.
C5_OwnCellsComposite ==
    [][(RowStep /\ FullSubRowOk(row'))
       => /\ EmitsOne
          /\ NewRecord.Full_Technique_ID =
                 ExtractText(Cell(row', 1)) \o ExtractText(Cell(row', 2))]_vars

\* C5 amended: the composite id of a full sub-technique row is its own parent
\* id text, or the carry-over when that text is empty, followed by its own
\* sub id text.
C5_CompositeWithInheritedParent ==
    [][(RowStep /\ FullSubRowOk(row'))
       => /\ EmitsOne
          /\ NewRecord.Full_Technique_ID =
                 (IF ExtractText(Cell(row', 1)) # EmptyText
                  THEN ExtractText(Cell(row', 1))
                  ELSE last_technique_id) \o ExtractText(Cell(row', 2))]_vars

\* C5 witness: a full sub-technique row with a blank parent id cell has been
\* processed after a row that set the carry-over
C5_Witness ==
    /\ pc = "rows"
    /\ FullSubRowOk(row)
    /\ ExtractText(Cell(row, 1)) = EmptyText
    /\ Len(PassRecords) = 2
    /\ LastRecord.Technique_ID = <<"T2">>
    /\ LastRecord.Full_Technique_ID = <<"T2", ".1">>

\* C6: a continuation row processed with an empty carry-over, when no record
\* of the current group has an empty Sub_Technique_ID, emits exactly one
\* record, with an empty Technique_ID and its sub id as Full_Technique_ID;
\* no error, and the carry-over stays empty.
C6_UnresolvableParentDegrades ==
    [][(/\ RowStep
        /\ ContinuationRowOk(row')
        /\ last_technique_id = EmptyText
        /\ \A k \in 1..Len(all_techniques) :
              all_techniques[k].Group_ID = group_id
                  => all_techniques[k].Sub_Technique_ID # EmptyText)
       => /\ EmitsOne
          /\ NewRecord.Technique_ID = EmptyText
          /\ NewRecord.Full_Technique_ID = ExtractText(Cell(row', 2))
          /\ last_technique_id' = EmptyText
          /\ log' = log
          /\ pc' = "rows"]_vars

\* C6 witness: a continuation row came first in its table, with a parent
\* record of another group already collected, and got an empty Technique_ID
C6_Witness ==
    /\ pc = "rows"
    /\ ContinuationRowOk(row)
    /\ nrows = 1
    /\ Len(PassRecords) = 1
    /\ LastRecord.Technique_ID = EmptyText
    /\ LastRecord.Full_Technique_ID = <<".1">>
    /\ last_technique_id = EmptyText
    /\ \E k \in 1..pass_start :
          /\ all_techniques[k].Group_ID # group_id
          /\ all_techniques[k].Technique_ID # EmptyText
          /\ all_techniques[k].Sub_Technique_ID = EmptyText

\* C7: between two gets there is a sleep.
C7_DelayBetweenFetches ==
    \A i, j \in 1..Len(log) :
        (i < j /\ log[i].op = "get" /\ log[j].op = "get")
            => \E k \in i..j : log[k].op = "sleep"

\* C8: every collected record has Full_Technique_ID = Technique_ID followed by
\* Sub_Technique_ID; a parent row's record has an empty Sub_Technique_ID and
\* Full_Technique_ID = Technique_ID, and its Technique_ID is the id cell's
\* extracted text when that text is not empty.
C8_CompositeIdentifier ==
    /\ [](\A k \in 1..Len(all_techniques) :
             all_techniques[k].Full_Technique_ID =
                 all_techniques[k].Technique_ID
                     \o all_techniques[k].Sub_Technique_ID)
    /\ [][(RowStep /\ ParentRowOk(row'))
          => /\ EmitsOne
             /\ NewRecord.Sub_Technique_ID = EmptyText
             /\ NewRecord.Full_Technique_ID = NewRecord.Technique_ID
             /\ (ExtractText(Cell(row', 1)) # EmptyText
                   => NewRecord.Technique_ID = ExtractText(Cell(row', 1)))]_vars

\* C8 witness: a parent row with its own id has been processed after a
\* sub-technique record of another technique
C8_Witness ==
    /\ pc = "rows"
    /\ ParentRowOk(row)
    /\ Len(PassRecords) = 2
    /\ LastRecord.Technique_ID = <<"T2">>
    /\ LastRecord.Full_Technique_ID = <<"T2">>
    /\ PassRecords[1].Full_Technique_ID = <<"T1", ".1">>

\* the scan as C9 states it: the most recent record of the group whose
\* Sub_Technique_ID is empty gives the parent id
RECURSIVE MostRecentTopLevel(_, _)
MostRecentTopLevel(recs, g) ==
    IF recs = << >> THEN EmptyText
    ELSE LET tech == recs[Len(recs)]
         IN IF tech.Group_ID = g /\ tech.Sub_Technique_ID = EmptyText
            THEN tech.Technique_ID
            ELSE MostRecentTopLevel(SubSeq(recs, 1, Len(recs) - 1), g)

\* C9: a continuation row processed with an empty carry-over takes as parent
\* id the Technique_ID of the most recent record of this group whose
\* Sub_Technique_ID is empty.
C9_FallbackScanRule ==
    [][(RowStep /\ ContinuationRowOk(row') /\ last_technique_id = EmptyText)
       => /\ EmitsOne
          /\ NewRecord.Technique_ID =
                 MostRecentTopLevel(all_techniques, group_id)]_vars

\* C10: in the row loop the carry-over is the Technique_ID of the last record
\* of this iteration (empty if there is none); once set it stays set; and
\* when the listing's group ids are pairwise distinct, an empty carry-over
\* means every record of the group has an empty Technique_ID, so the scan
\* finds nothing and a continuation row's parent id is the carry-over.
C10_CarryOverInvariant ==
    /\ [](pc = "rows" =>
            last_technique_id =
                IF Len(all_techniques) > pass_start
                THEN LastRecord.Technique_ID ELSE EmptyText)
    /\ [][(pc = "rows" /\ pc' = "rows" /\ last_technique_id # EmptyText)
          => last_technique_id' # EmptyText]_vars
    /\ []((pc = "rows" /\ Distinct(mitre_groups)
             /\ last_technique_id = EmptyText)
          => /\ \A k \in 1..Len(all_techniques) :
                   all_techniques[k].Group_ID = group_id
                       => all_techniques[k].Technique_ID = EmptyText
             /\ InferParent(all_techniques, group_id) = EmptyText)
    /\ [][(RowStep /\ ContinuationRowOk(row') /\ Distinct(mitre_groups))
          => NewRecord.Technique_ID = last_technique_id]_vars

\* C10 witness: in a listing of distinct ids, the carry-over was empty after
\* the first record of the table and is set after the second
C10_Witness ==
    /\ pc = "rows"
    /\ Distinct(mitre_groups)
    /\ Len(mitre_groups) = 2
    /\ idx = 2
    /\ pass_start > 0
    /\ Len(PassRecords) = 2
    /\ PassRecords[1].Technique_ID = EmptyText
    /\ PassRecords[2].Technique_ID # EmptyText
    /\ last_technique_id = PassRecords[2].Technique_ID

====
